---- MODULE Spec2Model ----
(***************************************************************************)
(* Conversation sessions, admission and provider gateway of the Hooma      *)
(* chatbot backend (src/app.py) with the administrative operations of      *)
(* src/admin.py.                                                           *)
(*                                                                         *)
(* Execution model.  `chat` and the admin routes are `async def` handlers: *)
(* they run on the single event loop and give it up only at                *)
(* `await asyncio.to_thread(...)` inside get_ai_response.  The cleanup     *)
(* scheduled with background_tasks.add_task is a plain `def`, which the    *)
(* framework runs in a worker thread: its statements interleave with the   *)
(* loop at any point.  `running` is the handler that holds the loop in the *)
(* middle of a synchronous stretch (0: the loop is free).                  *)
(***************************************************************************)
EXTENDS Integers, Sequences, FiniteSets, TLC

VARIABLES config, now, ticks, sessions, heap, buckets, req, running, started, nextGen,
          upstream, admin

vars == <<config, now, ticks, sessions, heap, buckets, req, running, started, nextGen,
          upstream, admin>>

----------------------------------------------------------------------------
(* Bounds of the model *)

\* chat requests started in one behaviour of Spec
MaxRequests == 3
\* chat requests started in one behaviour of SeqSpec
MaxSeqRequests == 6
\* chat requests started in one behaviour of RateSpec
MaxRateRequests == 5
\* clock advances in one behaviour
MaxTicks == 2
\* session ids the server generates in one behaviour
MaxGen == 1
\* chat requests started in one behaviour of ApiSpec
MaxApiRequests == 3
\* chat requests started in one behaviour of TimedSpec
MaxTimedRequests == 3
\* chat requests started in one behaviour of AdminSpec
MaxAdminRequests == 2
\* admin routes called in one behaviour of AdminSpec
MaxReports == 1

\* concurrent request handlers (and the cleanup thread each leaves behind)
Slots == {1, 2}
\* clock advances: half a minute, a day
Steps == {30, 86400}
\* session_id absent from the request (None)
NoSessionId == 0
\* session_id given as the empty string
EmptySessionId == -1
\* ids a client makes up itself; generated ids are 1..MaxGen
ClientIds == {100}
ClientKeys == {"ip1", "ip2"}
Messages == {"m1", "m2"}
Replies == {"r1"}
EmptyInfo == [k \in {} |-> ""]
UserInfos == {EmptyInfo, [url |-> "u1"], [url |-> "u2", ref |-> "r1"], [ref |-> "r2"]}

----------------------------------------------------------------------------
(* Program constants *)

CONTEXT_TURNS == 10
RETENTION_SECONDS == 86400
WINDOW_SECONDS == 60
UNAVAILABLE == "serviciul AI nu este disponibil momentan"
TECHNICAL == "intampin probleme tehnice"

Providers == {"openai", "anthropic", "other"}
MIN_MESSAGE_LENGTH == 1
MAX_MESSAGE_LENGTH == 2000

\* a string of n characters
RECURSIVE Pad(_)
Pad(n) ==
    IF n = 0 THEN ""
    ELSE IF n % 2 = 1 THEN "x" \o Pad(n - 1)
    ELSE LET half == Pad(n \div 2) IN half \o half

\* request bodies around the limits of ChatRequest.message
ApiMessages == {"", "m1", Pad(MAX_MESSAGE_LENGTH), Pad(MAX_MESSAGE_LENGTH + 1)}

\* mutant: ChatRequest.message without max_length
ValidMessageNoMax(msg) == Len(msg) >= MIN_MESSAGE_LENGTH

\* ChatRequest.message: Field(..., min_length=1, max_length=2000)
ValidMessage(msg) == Len(msg) >= MIN_MESSAGE_LENGTH /\ Len(msg) <= MAX_MESSAGE_LENGTH

\* mutant: `is None` in place of the truth test
AbsentOnlyNone(sid) == sid = NoSessionId

\* `chat_request.session_id or generate_session_id()`: None and "" are falsy
Absent(sid) == sid \in {NoSessionId, EmptySessionId}

----------------------------------------------------------------------------
(* Timestamps: datetime.now(timezone.utc).isoformat() and its parse *)

IsoFormat(t) == [date |-> t \div 86400, time |-> t % 86400, tz |-> "+00:00"]

FromIsoFormat(s) == s.date * 86400 + s.time

----------------------------------------------------------------------------
(* The `sessions` dict: insertion-ordered entries; a deleted entry leaves a *)
(* hole that iteration skips, and clear() drops the table.                  *)

NoEntry == [key |-> 0, val |-> 0]

DictHas(d, k) == \E i \in 1..Len(d) : d[i].key = k

DictIndex(d, k) == CHOOSE i \in 1..Len(d) : d[i].key = k

DictGet(d, k) == d[DictIndex(d, k)].val

DictLen(d) == Cardinality({i \in 1..Len(d) : d[i].key # 0})

DictCompact(d) == SelectSeq(d, LAMBDA e : e.key # 0)

\* d[k] = v for a key that is absent; a full table (5 entries of the
\* smallest table) is rebuilt without its holes first
DictInsert(d, k, v) ==
    LET e == [key |-> k, val |-> v]
    IN  IF Len(d) >= 5 THEN Append(DictCompact(d), e) ELSE Append(d, e)

DictDel(d, k) == [d EXCEPT ![DictIndex(d, k)] = NoEntry]

\* the next live entry after position pos, 0 when there is none
DictNext(d, pos) ==
    LET live == {i \in (pos + 1)..Len(d) : d[i].key # 0}
    IN  IF live = {} THEN 0 ELSE CHOOSE i \in live : \A j \in live : i <= j

----------------------------------------------------------------------------
(* Session records live on the heap: a handler keeps its reference when    *)
(* the dict entry is deleted.                                              *)

NewSession(t) ==
    [created_at |-> IsoFormat(t), messages |-> <<>>,
     user_info |-> EmptyInfo, last_activity |-> IsoFormat(t),
     \* history: <<message, reply>> of the requests that responded on this record
     served |-> <<>>]

NewObj(h) == CHOOSE o \in 1..(Cardinality(DOMAIN h) + 1) : o \notin DOMAIN h

Turn(role, content, t) == [role |-> role, content |-> content, timestamp |-> IsoFormat(t)]

\* mutant: user_info assigned instead of updated
Replace(old, new) == new

\* dict.update
Merge(old, new) ==
    [k \in DOMAIN old \cup DOMAIN new |-> IF k \in DOMAIN new THEN new[k] ELSE old[k]]

\* mutant: seq[:n], the oldest turns instead of the latest
FirstSlice(seq, n) == SubSeq(seq, 1, IF Len(seq) < n THEN Len(seq) ELSE n)

\* seq[-n:]
LastSlice(seq, n) ==
    LET len == Len(seq)
        start == IF len - n < 0 THEN 0 ELSE len - n
    IN  SubSeq(seq, start + 1, len)

\* mutant: canned replies are left out of the context sent upstream
AiMessagesSkipCanned(recent) ==
    LET kept == SelectSeq(recent, LAMBDA t : ~(t.role = "assistant"
                                              /\ t.content \in {UNAVAILABLE, TECHNICAL}))
    IN  [i \in 1..Len(kept) |-> [role |-> kept[i].role, content |-> kept[i].content]]

AiMessages(recent) == [i \in 1..Len(recent) |-> [role |-> recent[i].role, content |-> recent[i].content]]

\* objects still referenced by the dict or by a handler's local variable
Collect(h, d, rq) ==
    LET used == {d[i].val : i \in 1..Len(d)} \cup {rq[r].session : r \in DOMAIN rq}
    IN  [o \in DOMAIN h \cap used |-> h[o]]

----------------------------------------------------------------------------
(* Provider clients *)

openai_client == config.AI_PROVIDER = "openai" /\ config.OPENAI_API_KEY

anthropic_client ==
    /\ ~(config.AI_PROVIDER = "openai" /\ config.OPENAI_API_KEY)
    /\ config.AI_PROVIDER = "anthropic" /\ config.ANTHROPIC_API_KEY

\* mutant: the dispatch falls back to whichever credential is set
VariantAnyCredential ==
    IF config.OPENAI_API_KEY THEN "openai"
    ELSE IF config.ANTHROPIC_API_KEY THEN "anthropic"
    ELSE "none"

\* the branch get_ai_response takes
Variant ==
    IF config.AI_PROVIDER = "openai" /\ openai_client THEN "openai"
    ELSE IF config.AI_PROVIDER = "anthropic" /\ anthropic_client THEN "anthropic"
    ELSE "none"

----------------------------------------------------------------------------
(* Admission: the fixed-window counter of the limiter *)

NoBucket == [window_start |-> -1, count |-> 0]

Admit(b, t, ceiling) ==
    LET expired == b = NoBucket \/ t - b.window_start >= WINDOW_SECONDS
        fresh == IF expired THEN [window_start |-> t, count |-> 0] ELSE b
        hit == [fresh EXCEPT !.count = @ + 1]
    IN  [bucket |-> hit, allow |-> hit.count <= ceiling]

----------------------------------------------------------------------------
(* Handlers *)

NoSweep ==
    [current_time |-> 0, to_remove |-> <<>>, di_used |-> 0, di_pos |-> 0,
     di_len |-> 0, del_pos |-> 0, error |-> "", dirty |-> FALSE, pre |-> <<>>]

\* the texts loaded from system_prompt.txt and knowledge_base.txt
SYSTEM_PROMPT == "system_prompt"

KNOWLEDGE_BASE == "knowledge_base"

\* get_ai_response, line 170 (the line breaks of the f-string written as spaces)
system_message == SYSTEM_PROMPT \o " KNOWLEDGE BASE: " \o KNOWLEDGE_BASE

\* nothing was sent upstream
NoPayload == [variant |-> "none", system |-> "", messages |-> <<>>]

\* mutant: the Anthropic request built like the OpenAI one
PayloadSystemInMessages(variant, messages) ==
    [variant |-> variant,
     system |-> IF variant = "anthropic" THEN system_message ELSE "",
     messages |-> <<[role |-> "system", content |-> system_message]>> \o messages]

\* the keyword arguments of the provider call: get_ai_response, lines 174-182
\* for OpenAI (no system argument) and 187-201 for Anthropic
Payload(variant, messages) ==
    IF variant = "openai"
    THEN [variant |-> variant,
          system |-> "",
          messages |-> <<[role |-> "system", content |-> system_message]>> \o messages]
    ELSE [variant |-> variant,
          system |-> system_message,
          messages |-> LET claude_messages == SelectSeq(messages, LAMBDA msg : msg.role # "system")
                       IN  [i \in 1..Len(claude_messages) |->
                              [role |-> claude_messages[i].role,
                               content |-> claude_messages[i].content]]]

NoResponse == [response |-> "", session_id |-> 0, timestamp |-> IsoFormat(0)]

IdleReq ==
    [pc |-> "idle", outcome |-> "none", key |-> "", session_id |-> 0, given |-> 0,
     message |-> "", user_info |-> EmptyInfo, session |-> 0, created |-> FALSE,
     uidx |-> 0, aidx |-> 0, evicted |-> FALSE, ai_messages |-> <<>>, calls |-> 0,
     raised |-> FALSE, ai_response |-> "", response |-> NoResponse, sweep |-> NoSweep,
     payload |-> NoPayload]

Terminal == {"idle", "invalid", "rejected", "failed", "swept", "sweep_failed"}

Sweeping == {"scanning", "deleting"}

\* history: a cleanup in progress saw the store change under it
Disturb(rq, self) ==
    [r \in DOMAIN rq |->
        IF r # self /\ rq[r].pc \in Sweeping
        THEN [rq[r] EXCEPT !.sweep.dirty = TRUE, !.sweep.pre = <<>>] ELSE rq[r]]

\* history: the entry of a handler's session left the dict while it ran
Evict(rq, ids) ==
    [r \in DOMAIN rq |->
        IF rq[r].pc \in {"refresh", "return", "awaiting", "responded"}
           /\ rq[r].session_id \in ids
        THEN [rq[r] EXCEPT !.evicted = TRUE] ELSE rq[r]]

\* the value of `running` while an admin route holds the event loop
LoopAdmin == 3

NoStats ==
    [total_sessions |-> 0, active_sessions |-> 0,
     avg_messages_per_session |-> [num |-> 0, den |-> 1],
     avg_session_duration_minutes |-> [num |-> 0, den |-> 1],
     total_messages |-> 0]

\* locals of an admin route and of the report function it is in; `pre` is
\* history: the store as it was when the route started
IdleAdmin ==
    [pc |-> "idle", kind |-> "", limit |-> 0, count |-> 0, now |-> 0,
     total_sessions |-> 0, di_used |-> 0, di_pos |-> 0, di_len |-> 0, rows |-> <<>>,
     stats |-> NoStats, recent |-> <<>>, export |-> <<>>, error |-> "", pre |-> <<>>]

Configs(ceilings) ==
    [AI_PROVIDER : Providers, OPENAI_API_KEY : BOOLEAN, ANTHROPIC_API_KEY : BOOLEAN,
     RATE_LIMIT_PER_MINUTE : ceilings]

InitWith(configs) ==
    /\ config \in configs
    /\ now = 0
    /\ ticks = 0
    /\ sessions = <<>>
    /\ heap = [o \in {} |-> NewSession(0)]
    /\ buckets = [k \in ClientKeys |-> NoBucket]
    /\ req = [r \in Slots |-> IdleReq]
    /\ running = 0
    /\ started = 0
    /\ nextGen = 1
    /\ upstream = 0
    /\ admin = IdleAdmin

\* a request body that fails the validation of ChatRequest is answered with
\* 422 before the limiter and the body of chat run
ChatInvalid(r, key, sid, msg, info) ==
    /\ running = 0
    /\ req[r].pc \in Terminal
    /\ \A q \in Slots : q < r => req[q].pc \notin Terminal
    /\ ~ValidMessage(msg)
    /\ req' = [req EXCEPT ![r] = [IdleReq EXCEPT !.pc = "invalid", !.outcome = "invalid",
                                                 !.message = msg]]
    /\ heap' = Collect(heap, sessions, req')
    /\ started' = started + 1
    /\ UNCHANGED <<admin, config, now, ticks, sessions, buckets, running, nextGen, upstream>>

\* chat entered with the limiter's verdict a: the limiter's check (342-343),
\* the session id (347), the membership test of get_session (141) and the
\* creation of a missing session (142-147).  `late` is FALSE in the program:
\* the decorator checks the limit before the body runs.
ChatEnter(r, key, sid, msg, info, a, late) ==
    /\ running = 0
    /\ req[r].pc \in Terminal
    /\ \A q \in Slots : q < r => req[q].pc \notin Terminal
    /\ Absent(sid) => nextGen <= MaxGen
    /\ sid \in {NoSessionId, EmptySessionId} \cup ClientIds \cup 1..(nextGen - 1)
    /\ ValidMessage(msg)
    /\ LET id == IF Absent(sid) THEN nextGen ELSE sid
           base == [IdleReq EXCEPT !.key = key, !.given = sid, !.message = msg,
                                   !.user_info = info]
           rejected == [IdleReq EXCEPT !.pc = "rejected", !.outcome = "rejected"]
       IN  /\ buckets' = [buckets EXCEPT ![key] = a.bucket]
           /\ started' = started + 1
           /\ IF ~a.allow /\ ~late
              THEN /\ req' = [req EXCEPT ![r] = rejected]
                   /\ heap' = Collect(heap, sessions, req')
                   /\ UNCHANGED <<sessions, running, nextGen>>
              ELSE /\ nextGen' = IF Absent(sid) THEN nextGen + 1 ELSE nextGen
                   /\ running' = IF a.allow THEN r ELSE 0
                   /\ IF ~DictHas(sessions, id)
                      THEN LET o == NewObj(heap)
                               rq == [req EXCEPT ![r] =
                                        IF a.allow
                                        THEN [base EXCEPT !.pc = "return",
                                                   !.session_id = id, !.created = TRUE]
                                        ELSE rejected]
                           IN  /\ sessions' = DictInsert(sessions, id, o)
                               /\ req' = Disturb(rq, r)
                               /\ heap' = Collect((o :> NewSession(now)) @@ heap,
                                                  sessions', req')
                      ELSE /\ req' = [req EXCEPT ![r] =
                                        IF a.allow
                                        THEN [base EXCEPT !.pc = "refresh",
                                                          !.session_id = id]
                                        ELSE rejected]
                           /\ heap' = Collect(heap, sessions, req')
                           /\ UNCHANGED sessions
    /\ UNCHANGED <<admin, config, now, ticks, upstream>>

\* mutant: the endpoint without its @limiter.limit decorator
ChatBeginUnlimited(r, key, sid, msg, info) ==
    ChatEnter(r, key, sid, msg, info,
              [Admit(buckets[key], now, config.RATE_LIMIT_PER_MINUTE) EXCEPT !.allow = TRUE],
              FALSE)

\* mutant: the limit checked inside the body, after get_session
ChatBeginLateLimit(r, key, sid, msg, info) ==
    ChatEnter(r, key, sid, msg, info,
              Admit(buckets[key], now, config.RATE_LIMIT_PER_MINUTE), TRUE)

\* mutant: get_session without its membership test, every request stores a
\* new record under its id
ChatBeginAlwaysCreates(r, key, sid, msg, info) ==
    /\ running = 0
    /\ req[r].pc \in Terminal
    /\ \A q \in Slots : q < r => req[q].pc \notin Terminal
    /\ Absent(sid) => nextGen <= MaxGen
    /\ sid \in {NoSessionId, EmptySessionId} \cup ClientIds \cup 1..(nextGen - 1)
    /\ ValidMessage(msg)
    /\ LET id == IF Absent(sid) THEN nextGen ELSE sid
           o == NewObj(heap)
       IN  /\ sessions' = IF DictHas(sessions, id)
                          THEN [sessions EXCEPT ![DictIndex(sessions, id)].val = o]
                          ELSE DictInsert(sessions, id, o)
           /\ req' = [req EXCEPT ![r] = [IdleReq EXCEPT !.pc = "return", !.key = key,
                                             !.given = sid, !.message = msg,
                                             !.user_info = info, !.session_id = id,
                                             !.created = TRUE]]
           /\ heap' = Collect((o :> NewSession(now)) @@ heap, sessions', req')
    /\ nextGen' = IF Absent(sid) THEN nextGen + 1 ELSE nextGen
    /\ running' = r
    /\ started' = started + 1
    /\ UNCHANGED <<admin, config, now, ticks, buckets, upstream>>

\* chat, lines 342-350 with get_session 141-147
ChatBegin(r, key, sid, msg, info) ==
    ChatEnter(r, key, sid, msg, info,
              Admit(buckets[key], now, config.RATE_LIMIT_PER_MINUTE), FALSE)

\* mutant: the refresh written to created_at instead of last_activity
GetSessionRefreshCreatedAt(r) ==
    /\ running = r
    /\ req[r].pc = "refresh"
    /\ IF ~DictHas(sessions, req[r].session_id)
       THEN /\ req' = [req EXCEPT ![r] = [IdleReq EXCEPT !.pc = "failed",
                                                         !.outcome = "failed"]]
            /\ running' = 0
            /\ UNCHANGED heap
       ELSE LET o == DictGet(sessions, req[r].session_id)
            IN  /\ heap' = [heap EXCEPT ![o].created_at = IsoFormat(now)]
                /\ req' = Disturb([req EXCEPT ![r].pc = "return"], r)
                /\ UNCHANGED running
    /\ UNCHANGED <<admin, config, now, ticks, sessions, buckets, started, nextGen, upstream>>

\* mutant: the refresh stamps every session of the store
GetSessionRefreshTouchesAll(r) ==
    /\ running = r
    /\ req[r].pc = "refresh"
    /\ IF ~DictHas(sessions, req[r].session_id)
       THEN /\ req' = [req EXCEPT ![r] = [IdleReq EXCEPT !.pc = "failed",
                                                         !.outcome = "failed"]]
            /\ running' = 0
            /\ UNCHANGED heap
       ELSE LET live == {sessions[i].val : i \in {j \in 1..Len(sessions) : sessions[j].key # 0}}
            IN  /\ heap' = [o \in DOMAIN heap |->
                              IF o \in live
                              THEN [heap[o] EXCEPT !.last_activity = IsoFormat(now)]
                              ELSE heap[o]]
                /\ req' = Disturb([req EXCEPT ![r].pc = "return"], r)
                /\ UNCHANGED running
    /\ UNCHANGED <<admin, config, now, ticks, sessions, buckets, started, nextGen, upstream>>

\* get_session, line 149: the session was found by the membership test
GetSessionRefresh(r) ==
    /\ running = r
    /\ req[r].pc = "refresh"
    /\ IF ~DictHas(sessions, req[r].session_id)
       THEN \* KeyError: the request ends as a server error
            /\ req' = [req EXCEPT ![r] = [IdleReq EXCEPT !.pc = "failed",
                                                         !.outcome = "failed"]]
            /\ running' = 0
            /\ UNCHANGED heap
       ELSE LET o == DictGet(sessions, req[r].session_id)
            IN  /\ heap' = [heap EXCEPT ![o].last_activity = IsoFormat(now)]
                /\ req' = Disturb([req EXCEPT ![r].pc = "return"], r)
                /\ UNCHANGED running
    /\ UNCHANGED <<admin, config, now, ticks, sessions, buckets, started, nextGen, upstream>>

\* mutant: a fallback reply is returned but not stored in the session
RespondDropsFallback(h, q, text) ==
    LET o == q.session
        turn == Turn("assistant", text, now)
        msgs == IF text \in {UNAVAILABLE, TECHNICAL} THEN h[o].messages
                ELSE Append(h[o].messages, turn)
    IN  [heap |-> [h EXCEPT ![o].messages = msgs,
                            ![o].served = Append(@, <<q.message, text>>)],
         req |-> [q EXCEPT !.pc = "responded", !.outcome = "responded",
                           !.ai_response = text, !.aidx = Len(msgs),
                           !.response = [response |-> text, session_id |-> q.session_id,
                                         timestamp |-> turn.timestamp]]]

\* mutant: the assistant turn appended through sessions[session_id] instead of
\* the reference the handler holds
RespondViaStore(h, q, text) ==
    IF ~DictHas(sessions, q.session_id)
    THEN [heap |-> h, req |-> [q EXCEPT !.pc = "failed", !.outcome = "failed"]]
    ELSE LET o == DictGet(sessions, q.session_id)
             turn == Turn("assistant", text, now)
             msgs == Append(h[o].messages, turn)
         IN  [heap |-> [h EXCEPT ![o].messages = msgs,
                                 ![o].served = Append(@, <<q.message, text>>)],
              req |-> [q EXCEPT !.pc = "responded", !.outcome = "responded",
                                !.ai_response = text, !.aidx = Len(msgs),
                                !.response = [response |-> text, session_id |-> q.session_id,
                                              timestamp |-> turn.timestamp]]]

\* mutant: the assistant turn stored over the last turn instead of appended
RespondOverwritesLastTurn(h, q, text) ==
    LET o == q.session
        turn == Turn("assistant", text, now)
        msgs == [h[o].messages EXCEPT ![Len(h[o].messages)] = turn]
    IN  [heap |-> [h EXCEPT ![o].messages = msgs,
                            ![o].served = Append(@, <<q.message, text>>)],
         req |-> [q EXCEPT !.pc = "responded", !.outcome = "responded",
                           !.ai_response = text, !.aidx = Len(msgs),
                           !.response = [response |-> text, session_id |-> q.session_id,
                                         timestamp |-> turn.timestamp]]]

\* mutant: the assistant turn stamped with the time of the request's user turn
RespondStampsRequestTime(h, q, text) ==
    LET o == q.session
        turn == [Turn("assistant", text, now) EXCEPT
                    !.timestamp = h[o].messages[q.uidx].timestamp]
        msgs == Append(h[o].messages, turn)
    IN  [heap |-> [h EXCEPT ![o].messages = msgs,
                            ![o].served = Append(@, <<q.message, text>>)],
         req |-> [q EXCEPT !.pc = "responded", !.outcome = "responded",
                           !.ai_response = text, !.aidx = Len(msgs),
                           !.response = [response |-> text, session_id |-> q.session_id,
                                         timestamp |-> turn.timestamp]]]

\* chat, lines 371-386: the assistant turn, the scheduled cleanup, the response
Respond(h, q, text) ==
    LET o == q.session
        turn == Turn("assistant", text, now)
        msgs == Append(h[o].messages, turn)
    IN  [heap |-> [h EXCEPT ![o].messages = msgs,
                            ![o].served = Append(@, <<q.message, text>>)],
         req |-> [q EXCEPT !.pc = "responded", !.outcome = "responded",
                           !.ai_response = text, !.aidx = Len(msgs),
                           !.response = [response |-> text, session_id |-> q.session_id,
                                         timestamp |-> turn.timestamp]]]

\* mutant: the provider is called on the context before the user turn is stored
ChatAppendUserCallsFirst(r) ==
    /\ running = r
    /\ req[r].pc = "return"
    /\ IF ~DictHas(sessions, req[r].session_id)
       THEN /\ req' = [req EXCEPT ![r] = [IdleReq EXCEPT !.pc = "failed",
                                                         !.outcome = "failed"]]
            /\ UNCHANGED <<heap, upstream>>
       ELSE LET o == DictGet(sessions, req[r].session_id)
                recent_messages == LastSlice(heap[o].messages, CONTEXT_TURNS)
                q1 == [req[r] EXCEPT !.session = o,
                                     !.ai_messages = AiMessages(recent_messages)]
            IN  IF Variant # "none"
                THEN /\ heap' = heap
                     /\ req' = Disturb([req EXCEPT ![r] =
                                   [q1 EXCEPT !.pc = "awaiting", !.calls = @ + 1,
                                              !.payload = Payload(Variant, q1.ai_messages)]], r)
                     /\ upstream' = upstream + 1
                ELSE LET done == Respond(heap, q1, UNAVAILABLE)
                     IN  /\ heap' = done.heap
                         /\ req' = Disturb([req EXCEPT ![r] = done.req], r)
                         /\ UNCHANGED upstream
    /\ running' = 0
    /\ UNCHANGED <<admin, config, now, ticks, sessions, buckets, started, nextGen>>

\* mutant: the provider is called on the event loop, which the handler keeps
\* until the call returns
ChatAppendUserBlocksLoop(r) ==
    /\ running = r
    /\ req[r].pc = "return"
    /\ IF ~DictHas(sessions, req[r].session_id)
       THEN /\ req' = [req EXCEPT ![r] = [IdleReq EXCEPT !.pc = "failed",
                                                         !.outcome = "failed"]]
            /\ running' = 0
            /\ UNCHANGED <<heap, upstream>>
       ELSE LET o == DictGet(sessions, req[r].session_id)
                info == IF req[r].user_info # EmptyInfo
                        THEN Merge(heap[o].user_info, req[r].user_info)
                        ELSE heap[o].user_info
                msgs == Append(heap[o].messages, Turn("user", req[r].message, now))
                h1 == [heap EXCEPT ![o].user_info = info, ![o].messages = msgs]
                recent_messages == LastSlice(msgs, CONTEXT_TURNS)
                q1 == [req[r] EXCEPT !.session = o, !.uidx = Len(msgs),
                                     !.ai_messages = AiMessages(recent_messages)]
            IN  IF Variant # "none"
                THEN /\ heap' = h1
                     /\ req' = Disturb([req EXCEPT ![r] =
                                   [q1 EXCEPT !.pc = "awaiting", !.calls = @ + 1,
                                              !.payload = Payload(Variant, q1.ai_messages)]], r)
                     /\ upstream' = upstream + 1
                     /\ running' = r
                ELSE LET done == Respond(h1, q1, UNAVAILABLE)
                     IN  /\ heap' = done.heap
                         /\ req' = Disturb([req EXCEPT ![r] = done.req], r)
                         /\ running' = 0
                         /\ UNCHANGED upstream
    /\ UNCHANGED <<admin, config, now, ticks, sessions, buckets, started, nextGen>>

\* mutant: the context handed to the provider is the session's own list, so a
\* turn stored by another request shows up in a call already in flight
ChatAppendUserSharesContext(r) ==
    /\ running = r
    /\ req[r].pc = "return"
    /\ IF ~DictHas(sessions, req[r].session_id)
       THEN /\ req' = [req EXCEPT ![r] = [IdleReq EXCEPT !.pc = "failed",
                                                         !.outcome = "failed"]]
            /\ UNCHANGED <<heap, upstream>>
       ELSE LET o == DictGet(sessions, req[r].session_id)
                info == IF req[r].user_info # EmptyInfo
                        THEN Merge(heap[o].user_info, req[r].user_info)
                        ELSE heap[o].user_info
                turn == Turn("user", req[r].message, now)
                msgs == Append(heap[o].messages, turn)
                h1 == [heap EXCEPT ![o].user_info = info, ![o].messages = msgs]
                recent_messages == LastSlice(msgs, CONTEXT_TURNS)
                q1 == [req[r] EXCEPT !.session = o, !.uidx = Len(msgs),
                                     !.ai_messages = AiMessages(recent_messages)]
                shared == [j \in DOMAIN req |->
                             IF j # r /\ req[j].pc = "awaiting" /\ req[j].session = o
                             THEN [req[j] EXCEPT
                                     !.ai_messages = @ \o AiMessages(<<turn>>),
                                     !.payload.messages = @ \o AiMessages(<<turn>>)]
                             ELSE req[j]]
            IN  IF Variant # "none"
                THEN /\ heap' = h1
                     /\ req' = Disturb([shared EXCEPT ![r] =
                                   [q1 EXCEPT !.pc = "awaiting", !.calls = @ + 1,
                                              !.payload = Payload(Variant, q1.ai_messages)]], r)
                     /\ upstream' = upstream + 1
                ELSE LET done == Respond(h1, q1, UNAVAILABLE)
                     IN  /\ heap' = done.heap
                         /\ req' = Disturb([req EXCEPT ![r] = done.req], r)
                         /\ UNCHANGED upstream
    /\ running' = 0
    /\ UNCHANGED <<admin, config, now, ticks, sessions, buckets, started, nextGen>>

\* get_session's return (151), then chat from line 352 to the provider call:
\* user_info, the user turn, the context; get_ai_response up to its await,
\* or through to the response when no client is configured
ChatAppendUser(r) ==
    /\ running = r
    /\ req[r].pc = "return"
    /\ IF ~DictHas(sessions, req[r].session_id)
       THEN \* KeyError at `return sessions[session_id]`
            /\ req' = [req EXCEPT ![r] = [IdleReq EXCEPT !.pc = "failed",
                                                         !.outcome = "failed"]]
            /\ UNCHANGED <<heap, upstream>>
       ELSE LET o == DictGet(sessions, req[r].session_id)
                info == IF req[r].user_info # EmptyInfo
                        THEN Merge(heap[o].user_info, req[r].user_info)
                        ELSE heap[o].user_info
                msgs == Append(heap[o].messages, Turn("user", req[r].message, now))
                h1 == [heap EXCEPT ![o].user_info = info, ![o].messages = msgs]
                recent_messages == LastSlice(msgs, CONTEXT_TURNS)
                q1 == [req[r] EXCEPT !.session = o, !.uidx = Len(msgs),
                                     !.ai_messages = AiMessages(recent_messages)]
            IN  IF Variant # "none"
                THEN /\ heap' = h1
                     /\ req' = Disturb([req EXCEPT ![r] =
                                   [q1 EXCEPT !.pc = "awaiting", !.calls = @ + 1,
                                              !.payload = Payload(Variant, q1.ai_messages)]], r)
                     /\ upstream' = upstream + 1
                ELSE LET done == Respond(h1, q1, UNAVAILABLE)
                     IN  /\ heap' = done.heap
                         /\ req' = Disturb([req EXCEPT ![r] = done.req], r)
                         /\ UNCHANGED upstream
    /\ running' = 0
    /\ UNCHANGED <<admin, config, now, ticks, sessions, buckets, started, nextGen>>

\* the provider call returns text: get_ai_response 184/204, then chat 371-386
ProviderReturn(r, text) ==
    /\ running = 0
    /\ req[r].pc = "awaiting"
    /\ LET done == Respond(heap, req[r], text)
       IN  /\ heap' = done.heap
           /\ req' = Disturb([req EXCEPT ![r] = done.req], r)
    /\ UNCHANGED <<admin, config, now, ticks, sessions, buckets, running, started, nextGen, upstream>>

\* mutant: get_ai_response without its except clause
ProviderRaisePropagates(r) ==
    /\ running = 0
    /\ req[r].pc = "awaiting"
    /\ req' = [req EXCEPT ![r] = [req[r] EXCEPT !.pc = "failed", !.outcome = "failed",
                                               !.raised = TRUE]]
    /\ heap' = Collect(heap, sessions, req')
    /\ UNCHANGED <<admin, config, now, ticks, sessions, buckets, running, started, nextGen, upstream>>

\* the provider call raises: get_ai_response 209-211, then chat 371-386
ProviderRaise(r) ==
    /\ running = 0
    /\ req[r].pc = "awaiting"
    /\ LET done == Respond(heap, [req[r] EXCEPT !.raised = TRUE], TECHNICAL)
       IN  /\ heap' = done.heap
           /\ req' = Disturb([req EXCEPT ![r] = done.req], r)
    /\ UNCHANGED <<admin, config, now, ticks, sessions, buckets, running, started, nextGen, upstream>>

----------------------------------------------------------------------------
(* cleanup_old_sessions, one worker thread per responded request *)

Snapshot(d, h) ==
    LET c == DictCompact(d)
    IN  [i \in 1..Len(c) |-> [key |-> c[i].key, rec |-> h[c[i].val]]]

\* mutant: a session is dropped as soon as it reaches the horizon
ExpiredAtHorizon(current_time, rec) ==
    current_time - FromIsoFormat(rec.last_activity) >= RETENTION_SECONDS

Expired(current_time, rec) ==
    current_time - FromIsoFormat(rec.last_activity) > RETENTION_SECONDS

\* mutant: the response is returned without the cleanup being scheduled
SweepBeginNotScheduled(r) ==
    /\ req[r].pc = "responded"
    /\ req' = [req EXCEPT ![r] = IdleReq]
    /\ heap' = Collect(heap, sessions, req')
    /\ UNCHANGED <<admin, config, now, ticks, sessions, buckets, running, started, nextGen, upstream>>

\* lines 155-158: the clock is read, the iterator over sessions.items() made
SweepBegin(r) ==
    /\ req[r].pc = "responded"
    /\ req' = [req EXCEPT ![r] = [IdleReq EXCEPT !.pc = "scanning",
                          !.sweep = [NoSweep EXCEPT !.current_time = now,
                                            !.di_used = DictLen(sessions),
                                            !.di_len = DictLen(sessions),
                                            !.pre = Snapshot(sessions, heap)]]]
    /\ heap' = Collect(heap, sessions, req')
    /\ UNCHANGED <<admin, config, now, ticks, sessions, buckets, running, started, nextGen, upstream>>

\* lines 158-161: one step of the first loop
SweepNext(r) ==
    /\ req[r].pc = "scanning"
    /\ LET sw == req[r].sweep
           i == DictNext(sessions, sw.di_pos)
       IN  IF sw.di_used # DictLen(sessions)
           THEN \* RuntimeError: dictionary changed size during iteration
                req' = [req EXCEPT ![r].pc = "sweep_failed",
                                   ![r].sweep.error = "RuntimeError",
                                   ![r].sweep.pre = <<>>]
           ELSE IF i = 0
           THEN req' = [req EXCEPT ![r].pc =
                            IF sw.to_remove = <<>> THEN "swept" ELSE "deleting",
                                   ![r].sweep.del_pos = 1,
                                   ![r].sweep.pre = IF sw.to_remove = <<>> THEN <<>> ELSE @]
           ELSE IF sw.di_len = 0
           THEN \* RuntimeError: dictionary keys changed during iteration
                req' = [req EXCEPT ![r].pc = "sweep_failed",
                                   ![r].sweep.error = "RuntimeError",
                                   ![r].sweep.pre = <<>>]
           ELSE LET session_data == heap[sessions[i].val]
                IN  req' = [req EXCEPT ![r].sweep.di_pos = i,
                                       ![r].sweep.di_len = @ - 1,
                                       ![r].sweep.to_remove =
                                           IF Expired(sw.current_time, session_data)
                                           THEN Append(@, sessions[i].key) ELSE @]
    /\ UNCHANGED <<admin, config, now, ticks, sessions, heap, buckets, running, started, nextGen, upstream>>

\* mutant: the second loop removes the newest entry, not the one it listed
SweepDeletePopsLast(r) ==
    /\ req[r].pc = "deleting"
    /\ LET sw == req[r].sweep
           live == {i \in 1..Len(sessions) : sessions[i].key # 0}
       IN  IF live = {}
           THEN /\ req' = [req EXCEPT ![r].pc = "sweep_failed",
                                      ![r].sweep.error = "KeyError",
                                      ![r].sweep.pre = <<>>]
                /\ UNCHANGED <<sessions, heap>>
           ELSE LET session_id == sessions[CHOOSE i \in live : \A j \in live : j <= i].key
                IN  /\ sessions' = DictDel(sessions, session_id)
                    /\ req' = Evict(Disturb(
                                 [req EXCEPT ![r].pc = IF sw.del_pos = Len(sw.to_remove)
                                                       THEN "swept" ELSE "deleting",
                                             ![r].sweep.del_pos = @ + 1,
                                             ![r].sweep.pre = IF sw.del_pos = Len(sw.to_remove)
                                                              THEN <<>> ELSE @],
                                 r), {session_id})
                    /\ heap' = Collect(heap, sessions', req')
    /\ UNCHANGED <<admin, config, now, ticks, buckets, running, started, nextGen, upstream>>

\* lines 163-164: one step of the second loop
SweepDelete(r) ==
    /\ req[r].pc = "deleting"
    /\ LET sw == req[r].sweep
           session_id == sw.to_remove[sw.del_pos]
       IN  IF ~DictHas(sessions, session_id)
           THEN \* KeyError
                /\ req' = [req EXCEPT ![r].pc = "sweep_failed",
                                      ![r].sweep.error = "KeyError",
                                      ![r].sweep.pre = <<>>]
                /\ UNCHANGED <<sessions, heap>>
           ELSE /\ sessions' = DictDel(sessions, session_id)
                /\ req' = Evict(Disturb(
                             [req EXCEPT ![r].pc = IF sw.del_pos = Len(sw.to_remove)
                                                   THEN "swept" ELSE "deleting",
                                         ![r].sweep.del_pos = @ + 1,
                                         ![r].sweep.pre = IF sw.del_pos = Len(sw.to_remove)
                                                          THEN <<>> ELSE @],
                             r), {session_id})
                /\ heap' = Collect(heap, sessions', req')
    /\ UNCHANGED <<admin, config, now, ticks, buckets, running, started, nextGen, upstream>>

----------------------------------------------------------------------------
(* Administration and the clock *)

\* mutant: the store emptied one entry per step, other handlers running in
\* between
ClearSessionsOneByOne ==
    /\ running = 0
    /\ DictLen(sessions) > 0
    /\ LET session_id == sessions[DictNext(sessions, 0)].key
       IN  /\ sessions' = DictDel(sessions, session_id)
           /\ req' = Evict(Disturb(req, 0), {session_id})
    /\ heap' = Collect(heap, sessions', req')
    /\ UNCHANGED <<admin, config, now, ticks, buckets, running, started, nextGen, upstream>>

\* admin.py clear_sessions
ClearSessions ==
    /\ running = 0
    /\ sessions # <<>>
    /\ sessions' = <<>>
    /\ req' = Evict(Disturb(req, 0), {sessions[i].key : i \in 1..Len(sessions)})
    /\ heap' = Collect(heap, sessions', req')
    /\ UNCHANGED <<admin, config, now, ticks, buckets, running, started, nextGen, upstream>>

\* no handler and no cleanup is in flight
Quiet == \A r \in Slots : req[r].pc \in Terminal

\* time passes; a handler or a cleanup in flight does not last for hours
Tick(d) ==
    /\ running = 0
    /\ d >= 3600 => Quiet
    /\ ticks < MaxTicks
    /\ now' = now + d
    /\ ticks' = ticks + 1
    /\ UNCHANGED <<admin, config, sessions, heap, buckets, req, running, started, nextGen, upstream>>

----------------------------------------------------------------------------
(* Reports of admin.py.  The routes are async handlers without an await:   *)
(* they hold the event loop from start to end, and only the cleanup        *)
(* threads run between their statements.                                   *)

RECURSIVE SumSeq(_)
SumSeq(seq) == IF seq = <<>> THEN 0 ELSE Head(seq) + SumSeq(Tail(seq))

\* mutant: every session counted as active
StatsOfAllActive(total_sessions, t, rows) ==
    LET message_counts == [i \in 1..Len(rows) |-> Len(rows[i].rec.messages)]
        session_durations ==
            [i \in 1..Len(rows) |-> FromIsoFormat(rows[i].rec.last_activity)
                                      - FromIsoFormat(rows[i].rec.created_at)]
    IN  [total_sessions |-> total_sessions,
         active_sessions |-> Len(rows),
         avg_messages_per_session |->
             IF message_counts # <<>>
             THEN [num |-> SumSeq(message_counts), den |-> Len(message_counts)]
             ELSE [num |-> 0, den |-> 1],
         avg_session_duration_minutes |->
             IF session_durations # <<>>
             THEN [num |-> SumSeq(session_durations), den |-> 60 * Len(session_durations)]
             ELSE [num |-> 0, den |-> 1],
         total_messages |-> SumSeq(message_counts)]

\* get_session_stats, lines 61-67, from the values its loop collected; a
\* quotient a / b is kept as the fraction [num |-> a, den |-> b]
StatsOf(total_sessions, t, rows) ==
    LET message_counts == [i \in 1..Len(rows) |-> Len(rows[i].rec.messages)]
        session_durations ==
            [i \in 1..Len(rows) |-> FromIsoFormat(rows[i].rec.last_activity)
                                      - FromIsoFormat(rows[i].rec.created_at)]
        active == {i \in 1..Len(rows) :
                      t - FromIsoFormat(rows[i].rec.last_activity) < 3600}
    IN  [total_sessions |-> total_sessions,
         active_sessions |-> Cardinality(active),
         avg_messages_per_session |->
             IF message_counts # <<>>
             THEN [num |-> SumSeq(message_counts), den |-> Len(message_counts)]
             ELSE [num |-> 0, den |-> 1],
         avg_session_duration_minutes |->
             IF session_durations # <<>>
             THEN [num |-> SumSeq(session_durations), den |-> 60 * Len(session_durations)]
             ELSE [num |-> 0, den |-> 1],
         total_messages |-> SumSeq(message_counts)]

\* strftime("%Y-%m-%d %H:%M UTC"): the seconds are dropped
StrfMinute(s) == [date |-> s.date, hm |-> s.time \div 60]

\* order of two such strings
StrLess(a, b) == a.date < b.date \/ (a.date = b.date /\ a.hm < b.hm)

\* session_id[:8] + "...": every generated id starts with "session_"
TruncatedId(id) == IF id \in 1..MaxGen THEN "session_..." ELSE ToString(id) \o "..."

\* the entry get_recent_conversations builds for one session (lines 79-87)
RecentEntry(row) ==
    [session_id |-> TruncatedId(row.key),
     last_activity |-> StrfMinute(row.rec.last_activity),
     message_count |-> Len(row.rec.messages),
     recent_messages |-> LastSlice(row.rec.messages, 3),
     user_info |-> row.rec.user_info]

\* list.sort(key=last_activity, reverse=True): descending, entries with equal
\* keys keep their order
RECURSIVE SortRecent(_)
SortRecent(seq) ==
    IF seq = <<>> THEN <<>>
    ELSE LET rest == SortRecent(SubSeq(seq, 1, Len(seq) - 1))
             e == seq[Len(seq)]
             before == SelectSeq(rest, LAMBDA x : ~StrLess(x.last_activity, e.last_activity))
             after == SelectSeq(rest, LAMBDA x : StrLess(x.last_activity, e.last_activity))
         IN  before \o <<e>> \o after

\* get_recent_conversations, from the rows its loop visited
RecentOf(rows, limit) ==
    LET recent_sessions ==
            [i \in 1..Len(SelectSeq(rows, LAMBDA row : row.rec.messages # <<>>)) |->
                RecentEntry(SelectSeq(rows, LAMBDA row : row.rec.messages # <<>>)[i])]
        sorted == SortRecent(recent_sessions)
    IN  SubSeq(sorted, 1, IF Len(sorted) < limit THEN Len(sorted) ELSE limit)

\* the "sessions" list of export_data (lines 205-215)
ExportOf(rows) ==
    [i \in 1..Len(rows) |->
        [session_id |-> rows[i].key,
         created_at |-> rows[i].rec.created_at,
         last_activity |-> rows[i].rec.last_activity,
         message_count |-> Len(rows[i].rec.messages),
         messages |-> rows[i].rec.messages,
         user_info |-> rows[i].rec.user_info]]

AdminEnded == {"idle", "done", "failed"}

\* admin_dashboard or export_data enters get_session_stats: lines 44-45
AdminBegin(kind, limit) ==
    /\ running = 0
    /\ admin.pc \in AdminEnded
    /\ running' = LoopAdmin
    /\ admin' = [IdleAdmin EXCEPT !.pc = "stats_iter", !.kind = kind, !.limit = limit,
                                  !.count = admin.count + 1, !.now = now,
                                  !.total_sessions = DictLen(sessions),
                                  !.pre = Snapshot(sessions, heap)]
    /\ UNCHANGED <<config, now, ticks, sessions, heap, buckets, req, started, nextGen, upstream>>

\* `for session_id, session_data in sessions.items()`: the iterator is made
AdminIter ==
    /\ admin.pc \in {"stats_iter", "recent_iter", "export_iter"}
    /\ admin' = [admin EXCEPT !.pc = CASE admin.pc = "stats_iter" -> "stats_scan"
                                       [] admin.pc = "recent_iter" -> "recent_scan"
                                       [] admin.pc = "export_iter" -> "export_scan",
                              !.di_used = DictLen(sessions), !.di_len = DictLen(sessions),
                              !.di_pos = 0, !.rows = <<>>]
    /\ UNCHANGED <<config, now, ticks, sessions, heap, buckets, req, running, started, nextGen, upstream>>

\* one step of the loop of the report in progress; at its end the report
\* returns and the route goes on
AdminNext ==
    /\ admin.pc \in {"stats_scan", "recent_scan", "export_scan"}
    /\ LET i == DictNext(sessions, admin.di_pos)
           failed == [admin EXCEPT !.pc = "failed", !.error = "RuntimeError", !.rows = <<>>,
                                   !.pre = <<>>]
       IN  IF admin.di_used # DictLen(sessions)
           THEN \* RuntimeError: dictionary changed size during iteration
                admin' = failed /\ running' = 0
           ELSE IF i # 0 /\ admin.di_len = 0
           THEN \* RuntimeError: dictionary keys changed during iteration
                admin' = failed /\ running' = 0
           ELSE IF i # 0
           THEN /\ admin' = [admin EXCEPT !.di_pos = i, !.di_len = @ - 1,
                                !.rows = Append(@, [key |-> sessions[i].key,
                                                    rec |-> heap[sessions[i].val]])]
                /\ UNCHANGED running
           ELSE IF admin.pc = "stats_scan"
           THEN /\ admin' = [admin EXCEPT
                                !.pc = IF admin.kind = "dashboard" THEN "recent_iter"
                                                                   ELSE "export_iter",
                                !.stats = StatsOf(admin.total_sessions, admin.now, admin.rows),
                                !.rows = <<>>]
                /\ UNCHANGED running
           ELSE /\ admin' = [admin EXCEPT
                                !.pc = "done",
                                !.recent = IF admin.pc = "recent_scan"
                                           THEN RecentOf(admin.rows, admin.limit) ELSE @,
                                !.export = IF admin.pc = "export_scan"
                                           THEN ExportOf(admin.rows) ELSE @,
                                !.rows = <<>>]
                /\ running' = 0
    /\ UNCHANGED <<config, now, ticks, sessions, heap, buckets, req, started, nextGen, upstream>>

----------------------------------------------------------------------------
(* Specifications *)

\* Spec: concurrent handlers, cleanup threads, clear and the clock, under one
\* configuration of each variant of the gateway
Init ==
    InitWith({c \in Configs({2}) :
                 \/ c.AI_PROVIDER = "openai" /\ c.OPENAI_API_KEY /\ ~c.ANTHROPIC_API_KEY
                 \/ c.AI_PROVIDER = "anthropic" /\ ~c.OPENAI_API_KEY /\ c.ANTHROPIC_API_KEY
                 \/ c.AI_PROVIDER = "other" /\ ~c.OPENAI_API_KEY /\ ~c.ANTHROPIC_API_KEY})

Next ==
    \/ \E r \in Slots, key \in {"ip1"}, sid \in {NoSessionId} \cup ClientIds \cup 1..MaxGen,
          msg \in {"m1"}, info \in {EmptyInfo} :
            started < MaxRequests /\ ChatBegin(r, key, sid, msg, info)
    \/ \E r \in Slots : GetSessionRefresh(r)
    \/ \E r \in Slots : ChatAppendUser(r)
    \/ \E r \in Slots, text \in Replies : ProviderReturn(r, text)
    \/ \E r \in Slots : ProviderRaise(r)
    \/ \E r \in Slots : SweepBegin(r)
    \/ \E r \in Slots : SweepNext(r)
    \/ \E r \in Slots : SweepDelete(r)
    \/ ClearSessions
    \/ \E d \in Steps : Quiet /\ Tick(d)

Spec == Init /\ [][Next]_vars

\* LiveSpec: the traffic of Spec with invalid requests added.  Starlette runs
\* a response's background tasks once the response is sent and the thread
\* pool runs each task to its end, so every cleanup step that can be taken is
\* eventually taken
LiveNext ==
    \/ Next
    \/ \E r \in Slots :
          started < MaxRequests /\ ChatInvalid(r, "ip1", NoSessionId, "", EmptyInfo)

LiveSpec ==
    /\ Init
    /\ [][LiveNext]_vars
    /\ \A r \in Slots :
          WF_vars(SweepBegin(r)) /\ WF_vars(SweepNext(r)) /\ WF_vars(SweepDelete(r))

\* SeqSpec: one client talking to the server, one request after the other,
\* under every configuration; no time passes, so the cleanup removes nothing
SeqInit == InitWith(Configs({30}))

SeqNext ==
    \/ \E sid \in {NoSessionId} \cup 1..MaxGen, msg \in Messages :
            started < MaxSeqRequests /\ ChatBegin(1, "ip1", sid, msg, EmptyInfo)
    \/ GetSessionRefresh(1)
    \/ ChatAppendUser(1)
    \/ \E text \in Replies : ProviderReturn(1, text)
    \/ ProviderRaise(1)
    \/ SweepBegin(1)
    \/ SweepNext(1)

SeqSpec == SeqInit /\ [][SeqNext]_vars

\* ApiSpec: one client sending every kind of request body, one request after
\* the other: messages around the length limits, session_id absent, empty,
\* made up or reused, user_info absent or given
ApiInit ==
    InitWith({c \in Configs({30}) :
                 \/ c.AI_PROVIDER = "openai" /\ c.OPENAI_API_KEY /\ ~c.ANTHROPIC_API_KEY
                 \/ c.AI_PROVIDER = "other" /\ ~c.OPENAI_API_KEY /\ ~c.ANTHROPIC_API_KEY})

ApiNext ==
    \/ \E sid \in {NoSessionId, EmptySessionId} \cup ClientIds \cup 1..MaxGen,
          msg \in ApiMessages, info \in UserInfos :
            /\ started < MaxApiRequests
            /\ \/ ChatInvalid(1, "ip1", sid, msg, info)
               \/ ChatBegin(1, "ip1", sid, msg, info)
    \/ GetSessionRefresh(1)
    \/ ChatAppendUser(1)
    \/ \E text \in Replies : ProviderReturn(1, text)
    \/ ProviderRaise(1)
    \/ SweepBegin(1)
    \/ SweepNext(1)

ApiSpec == ApiInit /\ [][ApiNext]_vars

\* TimedSpec: concurrent requests whose provider calls take time: the clock
\* advances by half a minute while handlers are suspended
TimedInit ==
    InitWith({c \in Configs({30}) :
                 c.AI_PROVIDER = "openai" /\ c.OPENAI_API_KEY /\ ~c.ANTHROPIC_API_KEY})

TimedNext ==
    \/ \E r \in Slots, sid \in {NoSessionId} \cup ClientIds :
            started < MaxTimedRequests /\ ChatBegin(r, "ip1", sid, "m1", EmptyInfo)
    \/ \E r \in Slots : GetSessionRefresh(r)
    \/ \E r \in Slots : ChatAppendUser(r)
    \/ \E r \in Slots, text \in Replies : ProviderReturn(r, text)
    \/ \E r \in Slots : ProviderRaise(r)
    \/ \E r \in Slots : SweepBegin(r)
    \/ \E r \in Slots : SweepNext(r)
    \/ Tick(30)

TimedSpec == TimedInit /\ [][TimedNext]_vars

\* AdminSpec: the admin dashboard and the export run among chat requests,
\* cleanup threads and the clear
AdminInit ==
    InitWith({c \in Configs({30}) :
                 c.AI_PROVIDER = "openai" /\ c.OPENAI_API_KEY /\ ~c.ANTHROPIC_API_KEY})

AdminSpecNext ==
    \/ \E r \in Slots, sid \in {NoSessionId} \cup ClientIds :
            started < MaxAdminRequests /\ ChatBegin(r, "ip1", sid, "m1", EmptyInfo)
    \/ \E r \in Slots : GetSessionRefresh(r)
    \/ \E r \in Slots : ChatAppendUser(r)
    \/ \E r \in Slots, text \in Replies : ProviderReturn(r, text)
    \/ \E r \in Slots : SweepBegin(r)
    \/ \E r \in Slots : SweepNext(r)
    \/ \E r \in Slots : SweepDelete(r)
    \/ ClearSessions
    \/ \E d \in Steps : Quiet /\ admin.pc \in AdminEnded /\ Tick(d)
    \/ \E kind \in {"dashboard", "export"}, limit \in {1, 10} :
            admin.count < MaxReports /\ AdminBegin(kind, limit)
    \/ AdminIter
    \/ AdminNext

AdminSpec == AdminInit /\ [][AdminSpecNext]_vars

\* RateSpec: two client addresses against low ceilings, half a minute at a
\* time, with no provider configured
RateInit ==
    InitWith({c \in Configs({1, 3}) :
                 c.AI_PROVIDER = "other" /\ ~c.OPENAI_API_KEY /\ ~c.ANTHROPIC_API_KEY})

RateNext ==
    \/ \E key \in ClientKeys :
            started < MaxRateRequests /\ ChatBegin(1, key, 100, "m1", EmptyInfo)
    \/ GetSessionRefresh(1)
    \/ ChatAppendUser(1)
    \/ SweepBegin(1)
    \/ SweepNext(1)
    \/ Quiet /\ Tick(30)

RateSpec == RateInit /\ [][RateNext]_vars

----------------------------------------------------------------------------
(* Claims *)

\* C1: the list handed to the provider gateway is the last min(N, 10) turns of
\* the session's stored messages, N counted once the request's user turn is
\* appended, in stored order (all of them when N <= 10)
C1_ContextIsLastTurns ==
    \A r \in Slots :
        req[r].pc \in {"awaiting", "responded"} =>
            LET msgs == heap[req[r].session].messages
                N == req[r].uidx
                k == IF N <= 10 THEN N ELSE 10
                sent == req[r].ai_messages
            IN  /\ Len(sent) = k
                /\ \A i \in 1..k : /\ sent[i].role = msgs[N - k + i].role
                                   /\ sent[i].content = msgs[N - k + i].content

\* a gateway call on a history of more than ten turns
C1_Witness ==
    \E r \in Slots : req[r].pc = "awaiting" /\ req[r].uidx > 10

\* C2: after k completed requests, one after the other, on a session that was
\* not evicted or cleared, its messages are the 2k turns user, assistant, ...
\* each request's message followed by its reply; a request without session_id
\* is answered with a newly generated id
C2_SequentialTurnsAlternate ==
    /\ \A i \in 1..Len(sessions) :
          (/\ sessions[i].key # 0
           /\ \A r \in Slots : req[r].pc \in {"refresh", "return", "awaiting"}
                                  => req[r].session_id # sessions[i].key)
          => LET s == heap[sessions[i].val]
                 k == Len(s.served)
             IN  /\ Len(s.messages) = 2 * k
                 /\ \A j \in 1..k :
                       /\ s.messages[2 * j - 1].role = "user"
                       /\ s.messages[2 * j - 1].content = s.served[j][1]
                       /\ s.messages[2 * j].role = "assistant"
                       /\ s.messages[2 * j].content = s.served[j][2]
    /\ \A r \in Slots :
          (req[r].pc = "responded" /\ req[r].given = NoSessionId)
          => /\ req[r].response.session_id = nextGen - 1
             /\ req[r].response.session_id \notin ClientIds
             /\ req[r].created

\* the second request reuses the id the first one was given: four entries
C2_Witness ==
    \E r \in Slots :
        /\ req[r].pc = "responded"
        /\ req[r].given # NoSessionId
        /\ req[r].given \notin ClientIds
        /\ DictHas(sessions, req[r].given)
        /\ LET s == heap[DictGet(sessions, req[r].given)]
           IN  /\ Len(s.messages) = 4
               /\ <<s.messages[1].role, s.messages[2].role, s.messages[3].role,
                    s.messages[4].role>> = <<"user", "assistant", "user", "assistant">>

\* a chat request enters the handler body in this step
Admitted == \E r \in Slots : req[r].pc \in Terminal /\ req'[r].pc \in {"refresh", "return"}

\* C3: within one 60-second window the first c admit calls of a client key are
\* allowed and every further one is rejected; the first call after the window
\* has elapsed starts a new window with the count reset, and is allowed
C3_FixedWindowAdmission ==
    [][\A key \in ClientKeys :
          (started' = started + 1 /\ buckets'[key] # buckets[key]) =>
             LET b == buckets[key]
                 c == config.RATE_LIMIT_PER_MINUTE
                 inWindow == b # NoBucket /\ now - b.window_start < 60
             IN  /\ \A other \in ClientKeys \ {key} : buckets'[other] = buckets[other]
                 /\ IF inWindow
                    THEN /\ Admitted <=> b.count < c
                         /\ buckets'[key] = [b EXCEPT !.count = b.count + 1]
                    ELSE /\ Admitted
                         /\ buckets'[key] = [window_start |-> now, count |-> 1]]_vars

\* ceiling 3: four calls of one address in the first minute (the fourth is
\* rejected), and its fifth call, a minute after the first, opens a new window
C3_Witness ==
    /\ config.RATE_LIMIT_PER_MINUTE = 3
    /\ started = 5
    /\ buckets["ip2"] = NoBucket
    /\ buckets["ip1"] = [window_start |-> 60, count |-> 1]
    /\ \E r \in Slots : req[r].pc \in {"refresh", "return"}

\* C4: a chat request rejected by admission has no side effects: the session
\* store and every record in it are the same before and after it, no session
\* id is generated, no provider call is made and no cleanup is scheduled
C4_RejectedHasNoSideEffects ==
    [][(started' = started + 1 /\ ~Admitted) =>
          /\ sessions' = sessions
          /\ Snapshot(sessions', heap') = Snapshot(sessions, heap)
          /\ nextGen' = nextGen
          /\ upstream' = upstream
          /\ \A r \in Slots :
                req'[r] # req[r] =>
                    /\ req'[r].pc = "rejected"
                    /\ req'[r].session = 0
                    /\ req'[r].calls = 0
                    /\ req'[r].sweep = NoSweep]_vars

\* a request is rejected while another one is waiting for the provider
C4_Witness ==
    \E r, q \in Slots :
        /\ req[r].pc = "rejected"
        /\ req[q].pc = "awaiting"
        /\ DictLen(sessions) >= 1

\* the selected provider has no credential, or is neither openai nor anthropic
NoUsableClient ==
    \/ config.AI_PROVIDER = "openai" /\ ~config.OPENAI_API_KEY
    \/ config.AI_PROVIDER = "anthropic" /\ ~config.ANTHROPIC_API_KEY
    \/ config.AI_PROVIDER \notin {"openai", "anthropic"}

\* C5: with no usable provider client every request is answered with the same
\* fixed service-unavailable text, no upstream call is made and nothing is raised
C5_NoClientAnswersUnavailable ==
    NoUsableClient =>
        /\ upstream = 0
        /\ \A r \in Slots :
              /\ req[r].pc # "awaiting"
              /\ req[r].calls = 0
              /\ ~req[r].raised
              /\ req[r].outcome # "failed"
              /\ req[r].pc = "responded" =>
                    /\ req[r].ai_response = UNAVAILABLE
                    /\ req[r].response.response = UNAVAILABLE
        /\ \A o \in DOMAIN heap :
              \A j \in 1..Len(heap[o].served) : heap[o].served[j][2] = UNAVAILABLE

\* openai is selected without a key while an anthropic key is set; two different
\* messages have been answered
C5_Witness ==
    /\ config.AI_PROVIDER = "openai"
    /\ ~config.OPENAI_API_KEY
    /\ config.ANTHROPIC_API_KEY
    /\ \E r \in Slots :
          /\ req[r].pc = "responded"
          /\ req[r].response.response = UNAVAILABLE
          /\ \E j, k \in 1..Len(heap[req[r].session].served) :
                heap[req[r].session].served[j][1] # heap[req[r].session].served[k][1]

\* C6: when the provider call raises, the request still ends as a normal
\* response whose text, also stored as the assistant turn, is the fixed
\* technical-difficulties text
C6_ProviderErrorIsAbsorbed ==
    \A r \in Slots :
        req[r].raised =>
            /\ req[r].pc = "responded"
            /\ req[r].outcome = "responded"
            /\ req[r].ai_response = TECHNICAL
            /\ req[r].response.response = TECHNICAL
            /\ req[r].response.session_id = req[r].session_id
            /\ LET msgs == heap[req[r].session].messages
               IN  /\ req[r].aidx \in 1..Len(msgs)
                   /\ msgs[req[r].aidx].role = "assistant"
                   /\ msgs[req[r].aidx].content = TECHNICAL

\* the provider call of a request has raised
C6_Witness ==
    \E r \in Slots : req[r].raised /\ req[r].calls = 1 /\ req[r].pc = "responded"

\* C7: every chat request ends in one of two outcomes, rejected by admission
\* or responded with success status, whatever runs concurrently: no request
\* ends with an error escaping the handler
C7_RejectedOrResponded ==
    \A r \in Slots :
        /\ req[r].outcome \in {"none", "rejected", "responded"}
        /\ req[r].pc # "failed"

\* two requests in flight on one session id whose entry stayed in the store
SameLiveSession(r1, r2) ==
    /\ r1 # r2
    /\ req[r1].pc \in {"awaiting", "responded"}
    /\ req[r2].pc \in {"awaiting", "responded"}
    /\ req[r1].session_id = req[r2].session_id
    /\ ~req[r1].evicted
    /\ ~req[r2].evicted

\* C8: concurrent requests carrying the same session id work on one record:
\* at most one of them created it (exactly one when the id was unknown before
\* them), it is the record stored under the id, and the user turn of each of
\* them is in it
C8_OneRecordPerSessionId ==
    \A r1, r2 \in Slots :
        SameLiveSession(r1, r2) =>
            LET o == req[r1].session
                msgs == heap[o].messages
            IN  /\ req[r2].session = o
                /\ DictHas(sessions, req[r1].session_id)
                /\ DictGet(sessions, req[r1].session_id) = o
                /\ ~(req[r1].created /\ req[r2].created)
                /\ (req[r1].uidx = 1 \/ req[r2].uidx = 1) =>
                        (req[r1].created \/ req[r2].created)
                /\ req[r1].uidx # req[r2].uidx
                /\ \A r \in {r1, r2} :
                      /\ req[r].uidx \in 1..Len(msgs)
                      /\ msgs[req[r].uidx].role = "user"
                      /\ msgs[req[r].uidx].content = req[r].message

\* two requests with the same unknown client-chosen id are both waiting for
\* the provider; the record holds exactly their two user turns
C8_Witness ==
    \E r1, r2 \in Slots :
        /\ SameLiveSession(r1, r2)
        /\ req[r1].given \in ClientIds
        /\ req[r2].given = req[r1].given
        /\ req[r1].pc = "awaiting"
        /\ req[r2].pc = "awaiting"
        /\ req[r1].created
        /\ Len(heap[req[r1].session].messages) = 2

\* seconds between the time a cleanup read the clock and a session's last activity
IdleFor(t, rec) == t - (rec.last_activity.date * 86400 + rec.last_activity.time)

\* the cleanup of slot r ends in this step, and no other thread or handler
\* touched the store while it ran
SweepCompletes(r) ==
    /\ req[r].pc \in Sweeping
    /\ req'[r].pc = "swept"
    /\ ~req[r].sweep.dirty

\* C9: after a cleanup that ran to completion having read the clock at t, no
\* session idle for more than 24 hours at t is in the store, and every session
\* idle for at most 24 hours (exactly 24 hours included) is still there with
\* its messages, user_info and timestamps unchanged
C9_SweepRemovesExactlyTheExpired ==
    [][\A r \in Slots :
          SweepCompletes(r) =>
             LET t == req[r].sweep.current_time
                 pre == req[r].sweep.pre
                 post == Snapshot(sessions', heap')
             IN  /\ \A i \in 1..Len(post) : IdleFor(t, post[i].rec) <= 24 * 3600
                 /\ \A i \in 1..Len(pre) :
                       IdleFor(t, pre[i].rec) <= 24 * 3600 =>
                           \E j \in 1..Len(post) : post[j] = pre[i]
                 /\ \A j \in 1..Len(post) : \E i \in 1..Len(pre) : post[j] = pre[i]]_vars

\* a cleanup completed that found two sessions, removed the one idle for more
\* than 24 hours and kept the other
C9_Witness ==
    \E r \in Slots :
        /\ req[r].pc = "swept"
        /\ ~req[r].sweep.dirty
        /\ Len(req[r].sweep.to_remove) = 1
        /\ req[r].sweep.di_used = 2
        /\ DictLen(sessions) = 1
        /\ ~DictHas(sessions, req[r].sweep.to_remove[1])

\* C10: a cleanup interleaved with chat requests, another cleanup or the
\* administrative clear always runs to completion without raising, deletes no
\* session twice and deletes no session that is under the 24-hour horizon
C10_SweepSafeUnderTraffic ==
    [][\A r \in Slots :
          /\ req'[r].pc # "sweep_failed"
          /\ (req[r].pc = "deleting" /\ req'[r].sweep.del_pos = req[r].sweep.del_pos + 1) =>
                LET session_id == req[r].sweep.to_remove[req[r].sweep.del_pos]
                IN  /\ DictHas(sessions, session_id)
                    /\ IdleFor(now, heap[DictGet(sessions, session_id)]) > 24 * 3600]_vars

\* the provider call of slot r ends in this step
CallEnds(r) == req[r].pc = "awaiting" /\ req'[r].pc # "awaiting"

\* C11: a request whose session was removed from the store while it waited
\* for the provider does not fail: it appends its assistant turn to the record
\* it holds and returns a normal response
C11_EvictedRequestStillResponds ==
    [][\A r \in Slots :
          (CallEnds(r) /\ req[r].evicted /\ ~DictHas(sessions, req[r].session_id)) =>
             LET o == req[r].session
             IN  /\ req'[r].pc = "responded"
                 /\ req'[r].outcome = "responded"
                 /\ req'[r].session = o
                 /\ req'[r].response.session_id = req[r].session_id
                 /\ Len(heap'[o].messages) = Len(heap[o].messages) + 1
                 /\ heap'[o].messages[Len(heap'[o].messages)].role = "assistant"
                 /\ heap'[o].messages[Len(heap'[o].messages)].content =
                        req'[r].response.response]_vars

\* a request has responded after its session left the store during the call
C11_Witness ==
    \E r \in Slots :
        /\ req[r].pc = "responded"
        /\ req[r].calls = 1
        /\ req[r].evicted
        /\ ~DictHas(sessions, req[r].session_id)
        /\ heap[req[r].session].messages[req[r].aidx].role = "assistant"

\* C12: a request whose session was evicted after its admission recreates the
\* session under the same id: when it responds, the store holds a session with
\* the returned session_id, and that session holds the assistant turn the
\* request appended
C12_EvictedSessionIsRecreated ==
    [][\A r \in Slots :
          (req[r].pc \in {"return", "awaiting"} /\ req'[r].pc = "responded"
             /\ req'[r].evicted) =>
             /\ DictHas(sessions', req'[r].response.session_id)
             /\ LET rec == heap'[DictGet(sessions', req'[r].response.session_id)]
                IN  /\ rec.messages # <<>>
                    /\ rec.messages[Len(rec.messages)].role = "assistant"
                    /\ rec.messages[Len(rec.messages)].content = req'[r].response.response
                    /\ DictGet(sessions', req'[r].response.session_id) = req'[r].session]_vars

\* C13: a chat request whose message is empty or longer than 2000 characters
\* is rejected without any session mutation, and every user turn stored in a
\* session has a content of 1 to 2000 characters
C13_InvalidMessageRejected ==
    [][/\ \A r \in Slots :
            (started' = started + 1 /\ req'[r] # req[r]
               /\ (Len(req'[r].message) = 0 \/ Len(req'[r].message) > 2000)) =>
                /\ req'[r].pc = "invalid"
                /\ req'[r].session = 0
                /\ sessions' = sessions
                /\ Snapshot(sessions', heap') = Snapshot(sessions, heap)
                /\ nextGen' = nextGen
                /\ upstream' = upstream
       /\ \A o \in DOMAIN heap' :
            \A i \in 1..Len(heap'[o].messages) :
                heap'[o].messages[i].role = "user" =>
                    /\ Len(heap'[o].messages[i].content) >= 1
                    /\ Len(heap'[o].messages[i].content) <= 2000]_vars

\* a message of 2001 characters has just been refused while the store holds a
\* session with a user turn of exactly 2000 characters
C13_Witness ==
    /\ req[1].pc = "invalid"
    /\ Len(req[1].message) = 2001
    /\ \E i \in 1..Len(sessions) :
          /\ sessions[i].key # 0
          /\ \E j \in 1..Len(heap[sessions[i].val].messages) :
                /\ heap[sessions[i].val].messages[j].role = "user"
                /\ Len(heap[sessions[i].val].messages[j].content) = 2000

\* the response of a responded request carries the text and the timestamp of
\* the assistant turn the request appended
ResponseCarriesAssistantTurn(r) ==
    LET msgs == heap[req[r].session].messages
    IN  /\ req[r].aidx \in 1..Len(msgs)
        /\ msgs[req[r].aidx].role = "assistant"
        /\ req[r].response.response = msgs[req[r].aidx].content
        /\ req[r].response.timestamp = msgs[req[r].aidx].timestamp

\* the session id of the response was generated for this request
NewlyGenerated(r) ==
    /\ req[r].response.session_id \in 1..MaxGen
    /\ req[r].response.session_id = nextGen - 1
    /\ req[r].created

\* C14 (as stated): for every responded request the response's session_id is
\* the one supplied in the request when one was supplied, and a newly generated
\* id otherwise; text and timestamp are those of the appended assistant turn
C14_ResponseEchoesSuppliedId ==
    \A r \in Slots :
        req[r].pc = "responded" =>
            /\ req[r].given # NoSessionId => req[r].response.session_id = req[r].given
            /\ req[r].given = NoSessionId => NewlyGenerated(r)
            /\ ResponseCarriesAssistantTurn(r)

\* C14 (amended): the response's session_id is the supplied one when a
\* non-empty one was supplied, and a newly generated id when it was omitted or
\* empty; text and timestamp are those of the appended assistant turn
C14_ResponseEchoesNonEmptyId ==
    \A r \in Slots :
        req[r].pc = "responded" =>
            /\ req[r].given \notin {NoSessionId, EmptySessionId} =>
                    req[r].response.session_id = req[r].given
            /\ req[r].given \in {NoSessionId, EmptySessionId} => NewlyGenerated(r)
            /\ ResponseCarriesAssistantTurn(r)

\* a request that supplied the empty string as session_id has been answered
C14_Witness ==
    \E r \in Slots :
        /\ req[r].pc = "responded"
        /\ req[r].given = EmptySessionId
        /\ req[r].response.session_id = 1
        /\ req[r].calls = 1

\* seq1 is an initial part of seq2
IsPrefix(seq1, seq2) ==
    /\ Len(seq1) <= Len(seq2)
    /\ \A i \in 1..Len(seq1) : seq1[i] = seq2[i]

\* C15: messages is append-only: as long as a session stays in the store, its
\* earlier messages are an initial part of its later messages, whatever
\* operation runs (chat on it or on another session, a cleanup, a clear of
\* other entries)
C15_MessagesAppendOnly ==
    [][\A i \in 1..Len(sessions) :
          LET k == sessions[i].key
              o == sessions[i].val
          IN  (k # 0 /\ DictHas(sessions', k) /\ DictGet(sessions', k) = o) =>
                 /\ IsPrefix(heap[o].messages, heap'[o].messages)
                 /\ heap'[o].created_at = heap[o].created_at]_vars

\* a session holds two exchanges, and a cleanup that ran meanwhile removed
\* another session
C15_Witness ==
    /\ \E i \in 1..Len(sessions) :
          sessions[i].key # 0 /\ Len(heap[sessions[i].val].messages) = 4
    /\ \E r \in Slots :
          /\ req[r].pc = "swept"
          /\ Len(req[r].sweep.to_remove) = 1

\* the records of the sessions in the store
Stored == {heap[sessions[i].val] : i \in {j \in 1..Len(sessions) : sessions[j].key # 0}}

\* C16: in every reachable state every session in the store has
\* last_activity >= created_at
C16_LastActivityNotBeforeCreation ==
    \A rec \in Stored : FromIsoFormat(rec.last_activity) >= FromIsoFormat(rec.created_at)

\* a session created at one time has been used again a day later
C16_Witness ==
    \E rec \in Stored :
        /\ FromIsoFormat(rec.last_activity) >= FromIsoFormat(rec.created_at) + 86400
        /\ Len(rec.messages) >= 3

\* C17: every access to a session refreshes last_activity (get_session on an
\* existing id, every append of a user or assistant turn), so in every
\* reachable state last_activity is not earlier than the timestamp of the
\* session's last stored turn
C17_LastActivityCoversLastTurn ==
    \A rec \in Stored :
        rec.messages # <<>> =>
            FromIsoFormat(rec.last_activity) >=
                FromIsoFormat(rec.messages[Len(rec.messages)].timestamp)

\* C18: in every reachable state, under any interleaving of concurrent
\* requests on one session, the timestamps of a session's messages are
\* non-decreasing in sequence order
C18_TimestampsNonDecreasing ==
    \A o \in DOMAIN heap :
        \A i, j \in 1..Len(heap[o].messages) :
            i <= j => FromIsoFormat(heap[o].messages[i].timestamp) <=
                      FromIsoFormat(heap[o].messages[j].timestamp)

\* two requests on one session overlapped: both user turns were stored before
\* either assistant turn, and time passed between the first and the last turn
C18_Witness ==
    \E rec \in Stored :
        /\ Len(rec.messages) = 4
        /\ rec.messages[1].role = "user"
        /\ rec.messages[2].role = "user"
        /\ rec.messages[3].role = "assistant"
        /\ FromIsoFormat(rec.messages[1].timestamp) < FromIsoFormat(rec.messages[2].timestamp)
        /\ FromIsoFormat(rec.messages[2].timestamp) < FromIsoFormat(rec.messages[4].timestamp)

\* the handler of slot r stores its user turn in this step
UserTurnStored(r) == req[r].pc = "return" /\ req'[r].pc \in {"awaiting", "responded"}

\* C19: user_info is merged, not replaced: after a request carrying user_info
\* U on a session whose user_info was V, the session's user_info maps every
\* key of U to U's value and every other key of V to V's value; a request
\* carrying no user_info leaves it unchanged
C19_UserInfoMerged ==
    [][\A r \in Slots :
          UserTurnStored(r) =>
             LET o == req'[r].session
                 U == req[r].user_info
                 V == heap[o].user_info
                 W == heap'[o].user_info
             IN  /\ DOMAIN W = DOMAIN U \cup DOMAIN V
                 /\ \A k \in DOMAIN U : W[k] = U[k]
                 /\ \A k \in DOMAIN V \ DOMAIN U : W[k] = V[k]
                 /\ DOMAIN U = {} => W = V]_vars

\* after {url: u2, ref: r1} and then {ref: r2}, a request without user_info
\* has been answered: url is kept, ref overwritten
C19_Witness ==
    /\ req[1].pc = "responded"
    /\ req[1].user_info = EmptyInfo
    /\ req[1].uidx = 5
    /\ heap[req[1].session].user_info = [url |-> "u2", ref |-> "r2"]

\* a cleanup thread executes `del sessions[session_id]` in this step
SweepDeletes ==
    \E r \in Slots :
        req[r].pc = "deleting" /\ req'[r].sweep.del_pos = req[r].sweep.del_pos + 1

\* C20: the administrative clear empties the store in one step: whenever
\* entries leave the store other than by a cleanup's delete, the store is empty
\* right after, so no handler sees it partly cleared; a later request reusing
\* an id starts from an empty record
C20_ClearIsAtomic ==
    [][/\ (DictLen(sessions') < DictLen(sessions) /\ ~SweepDeletes) =>
            /\ sessions' = <<>>
            /\ \A r \in Slots : req'[r].pc \notin {"refresh"}
       /\ \A r \in Slots :
            (req[r].pc \in Terminal /\ req'[r].pc = "return"
               /\ ~DictHas(sessions, req'[r].session_id)) =>
                LET rec == heap'[DictGet(sessions', req'[r].session_id)]
                IN  /\ rec.messages = <<>>
                    /\ rec.user_info = EmptyInfo
                    /\ rec.created_at = IsoFormat(now)]_vars

\* after a clear, a request reusing the id of a cleared session works on a new
\* record that holds only its own user turn, while the request that was in
\* flight during the clear still holds the old one
C20_Witness ==
    \E r1, r2 \in Slots :
        /\ r1 # r2
        /\ req[r1].evicted
        /\ req[r1].pc \in {"awaiting", "responded"}
        /\ req[r2].session_id = req[r1].session_id
        /\ req[r2].given = req[r1].session_id
        /\ req[r2].created
        /\ req[r2].pc = "awaiting"
        /\ req[r2].session # req[r1].session
        /\ Len(heap[req[r2].session].messages) = 1
        /\ DictLen(sessions) = 1

\* get_session_stats returns in this step, and the store is as it was when
\* the report was called
StatsReturns ==
    /\ admin.pc = "stats_scan"
    /\ admin'.pc \in {"recent_iter", "export_iter"}
    /\ Snapshot(sessions, heap) = admin.pre

\* C21: stats() computed on a store state returns the number of sessions, the
\* number of sessions active within the last hour, the sum of the sessions'
\* message counts and the quotient of the last by the first (0 for an empty
\* store); hence active_sessions <= total_sessions
C21_StatsOfStore ==
    [][StatsReturns =>
          LET store == Snapshot(sessions, heap)
              st == admin'.stats
              avg == st.avg_messages_per_session
          IN  /\ st.total_sessions = Len(store)
              /\ st.active_sessions =
                    Cardinality({i \in 1..Len(store) :
                        admin.now - (store[i].rec.last_activity.date * 86400
                                       + store[i].rec.last_activity.time) < 3600})
              /\ st.total_messages =
                    SumSeq([i \in 1..Len(store) |-> Len(store[i].rec.messages)])
              /\ IF Len(store) = 0
                 THEN avg.num = 0
                 ELSE avg.num * st.total_sessions = st.total_messages * avg.den
              /\ avg.den > 0
              /\ st.active_sessions <= st.total_sessions]_vars

\* the statistics of a store with one session idle for a day and one just
\* used, two exchanges in all
C21_Witness ==
    /\ admin.pc = "done"
    /\ Snapshot(sessions, heap) = admin.pre
    /\ admin.stats.total_sessions = 2
    /\ admin.stats.active_sessions = 1
    /\ admin.stats.total_messages = 4
    /\ admin.stats.avg_messages_per_session = [num |-> 4, den |-> 2]

\* get_recent_conversations returns in this step, and the store is as it was
\* when the dashboard was called
RecentReturns ==
    /\ admin.pc = "recent_scan"
    /\ admin'.pc = "done"
    /\ Snapshot(sessions, heap) = admin.pre

\* the last n elements of seq, all of them when it has fewer
LastOf(seq, n) ==
    [i \in 1..(IF Len(seq) < n THEN Len(seq) ELSE n) |->
        seq[Len(seq) - (IF Len(seq) < n THEN Len(seq) ELSE n) + i]]

\* C22: recentConversations(limit) returns at most limit entries, each one the
\* entry of a different session with its total message count and exactly its
\* last min(3, N) turns in stored order, ordered by last_activity from most
\* recent to least recent
C22_RecentOrderedByActivity ==
    [][RecentReturns =>
          LET store == Snapshot(sessions, heap)
              out == admin'.recent
              Time(i) == store[i].rec.last_activity.date * 86400
                            + store[i].rec.last_activity.time
          IN  /\ Len(out) <= admin.limit
              /\ \E f \in [1..Len(out) -> 1..Len(store)] :
                    /\ \A i, j \in 1..Len(out) : i # j => f[i] # f[j]
                    /\ \A i \in 1..Len(out) :
                          /\ out[i].message_count = Len(store[f[i]].rec.messages)
                          /\ out[i].recent_messages = LastOf(store[f[i]].rec.messages, 3)
                    /\ \A i, j \in 1..Len(out) : i < j => Time(f[i]) >= Time(f[j])]_vars

\* C23: a report called while chat requests append or create sessions and while
\* a sweep or a clear deletes sessions always returns a result without failing
C23_ReportNeverFails ==
    admin.pc # "failed"

\* C24: an admitted request goes through its steps in a fixed order: the
\* session is resolved, the user turn appended, the context cut from the
\* session that already holds the user turn, the provider invoked, the
\* assistant turn appended after the provider returned, the response produced
C24_StepsInOrder ==
    [][\A r \in Slots :
          LET q == req[r]
              p == req'[r]
          IN  /\ (p.pc = "refresh" /\ q.pc # "refresh") => q.pc \in Terminal
              /\ (p.pc = "return" /\ q.pc # "return") => q.pc \in Terminal \cup {"refresh"}
              /\ (p.pc = "awaiting" /\ q.pc # "awaiting") =>
                    LET msgs == heap'[p.session].messages
                    IN  /\ q.pc = "return"
                        /\ p.uidx = Len(msgs)
                        /\ p.uidx = Len(heap[p.session].messages) + 1
                        /\ msgs[p.uidx] = Turn("user", q.message, now)
                        /\ p.ai_messages = AiMessages(LastSlice(msgs, CONTEXT_TURNS))
                        /\ p.aidx = 0
                        /\ p.response = NoResponse
                        /\ upstream' = upstream + 1
              /\ q.pc = "awaiting" =>
                    /\ q.aidx = 0
                    /\ q.response = NoResponse
                    /\ heap[q.session].messages[q.uidx] =
                          [heap[q.session].messages[q.uidx] EXCEPT
                              !.role = "user", !.content = q.message]
              /\ (p.pc = "responded" /\ q.pc # "responded") =>
                    LET msgs == heap'[p.session].messages
                    IN  /\ \/ q.pc = "awaiting" /\ upstream' = upstream
                           \/ q.pc = "return" /\ Variant = "none"
                        /\ p.uidx >= 1
                        /\ p.aidx > p.uidx
                        /\ p.aidx = Len(msgs)
                        /\ p.aidx = Len(heap[p.session].messages) + 1
                           \/ (q.pc = "return" /\ p.aidx = Len(heap[p.session].messages) + 2)
                        /\ msgs[p.uidx].role = "user"
                        /\ msgs[p.uidx].content = p.message
                        /\ msgs[p.aidx] = Turn("assistant", p.response.response, now)
                        /\ p.response.timestamp = msgs[p.aidx].timestamp]_vars

\* a request answered by the provider on a session that already held a turn
\* pair, while another request's turn was stored between its two turns
C24_Witness ==
    \E r \in Slots :
        /\ req[r].pc = "responded"
        /\ req[r].calls = 1
        /\ req[r].uidx >= 3
        /\ req[r].aidx > req[r].uidx + 1

\* the handler of an admitted request ends in this step
HandlerEnds(r) ==
    /\ req[r].pc \in {"refresh", "return", "awaiting"}
    /\ req'[r].pc \notin {"refresh", "return", "awaiting"}

\* C25: each admitted request invokes the provider gateway exactly once and
\* appends exactly one user turn and exactly one assistant turn; a failed or
\* degraded provider call is not retried
C25_ExactlyOneCallAndTurnPair ==
    [][\A r \in Slots :
          /\ HandlerEnds(r) =>
                LET p == req'[r]
                IN  /\ p.pc = "responded"
                    /\ p.calls = (IF Variant = "none" THEN 0 ELSE 1)
                    /\ p.uidx >= 1
                    /\ p.aidx > p.uidx
          /\ req'[r].calls <= 1
          /\ (req[r].pc = "awaiting" /\ req'[r].pc = "awaiting") =>
                req'[r].calls = req[r].calls]_vars

Canned == {UNAVAILABLE, TECHNICAL}

\* C26: a degraded gateway result is treated like any reply: the canned text is
\* appended to the session as an assistant turn and returned as the response,
\* and it stays in the stored history, so that every later request whose
\* window covers it sends it upstream as an assistant message
C26_CannedReplyIsHistory ==
    [][\A r \in Slots :
          LET q == req[r]
              p == req'[r]
          IN  /\ (HandlerEnds(r) /\ (q.pc = "return" \/ p.raised)) =>
                    LET msgs == heap'[p.session].messages
                    IN  /\ p.pc = "responded"
                        /\ p.response.response \in Canned
                        /\ p.response.response =
                              (IF p.raised THEN TECHNICAL ELSE UNAVAILABLE)
                        /\ msgs[Len(msgs)] = Turn("assistant", p.response.response, now)
                        /\ p.response.timestamp = msgs[Len(msgs)].timestamp
                        /\ DictHas(sessions', p.session_id)
                        /\ heap'[DictGet(sessions', p.session_id)].messages = msgs
              /\ (q.pc = "return" /\ p.pc = "awaiting") =>
                    LET msgs == heap'[p.session].messages
                        n == Len(msgs)
                        first == IF n > CONTEXT_TURNS THEN n - CONTEXT_TURNS + 1 ELSE 1
                    IN  /\ Len(p.ai_messages) = n - first + 1
                        /\ \A i \in first..n :
                              /\ p.ai_messages[i - first + 1].role = msgs[i].role
                              /\ p.ai_messages[i - first + 1].content = msgs[i].content]_vars

\* a request is waiting for the provider with the canned reply of an earlier
\* failed call in the context it sent
C26_Witness ==
    \E r \in Slots :
        /\ req[r].pc = "awaiting"
        /\ \E i \in 1..Len(req[r].ai_messages) :
              req[r].ai_messages[i] = [role |-> "assistant", content |-> TECHNICAL]
        /\ req[r].ai_messages[Len(req[r].ai_messages)].role = "user"

\* C27: nothing is held across the provider call: while a request is suspended
\* in the call the event loop is not its own, so a new request on the same or
\* on another session can be admitted, a handler that is running can take its
\* next step, and another suspended call can return
C27_NothingHeldAcrossProviderCall ==
    \A r \in Slots :
        req[r].pc = "awaiting" =>
            /\ running # r
            /\ \A r2 \in Slots \ {r} :
                  /\ (/\ running = 0
                      /\ req[r2].pc \in Terminal
                      /\ \A q \in Slots : q < r2 => req[q].pc \notin Terminal)
                     => \A sid \in {req[r].session_id} \cup ClientIds :
                           ENABLED ChatBegin(r2, "ip1", sid, "m1", EmptyInfo)
                  /\ running = r2 => ENABLED (GetSessionRefresh(r2) \/ ChatAppendUser(r2))
                  /\ (running = 0 /\ req[r2].pc = "awaiting")
                     => ENABLED ProviderReturn(r2, "r1")

\* a request admitted on the same session after another one was suspended has
\* stored both its turns and responded while the first is still suspended
C27_Witness ==
    \E r, r2 \in Slots :
        /\ req[r].pc = "awaiting"
        /\ req[r2].pc = "responded"
        /\ req[r2].session = req[r].session
        /\ req[r2].uidx > req[r].uidx
        /\ Len(heap[req[r].session].messages) = req[r2].aidx

SweepRan == {"swept", "sweep_failed"}

\* C28: every request that responded schedules one cleanup, which eventually
\* runs to its end, and starts only after the request's assistant turn was
\* appended; a request that was rejected, invalid or failed schedules none
C28_RespondedSchedulesOneSweep ==
    /\ \A r \in Slots : (req[r].pc = "responded") ~> (req[r].pc \in SweepRan)
    /\ [][\A r \in Slots :
             /\ (req[r].pc \notin Sweeping \cup SweepRan
                 /\ req'[r].pc \in Sweeping \cup SweepRan) =>
                   /\ req[r].pc = "responded"
                   /\ req[r].aidx >= 2
                   /\ heap[req[r].session].messages[req[r].aidx].role = "assistant"
                   /\ req'[r].sweep.current_time = now
             /\ (req[r].pc = "responded" /\ req'[r].pc # "responded") =>
                   req'[r].pc = "scanning"
             /\ (req[r].pc \in {"rejected", "invalid", "failed"} \cup SweepRan) =>
                   req'[r].pc \notin Sweeping]_vars

\* one request's cleanup ran to its end while another request ended rejected
C28_Witness ==
    \E r, r2 \in Slots :
        /\ req[r].pc = "swept"
        /\ req[r].sweep.di_used >= 1
        /\ req[r2].pc \in {"rejected", "invalid"}

\* C29: the cleanup is idempotent: a cleanup that runs undisturbed to its end
\* at the clock value of an undisturbed cleanup that has already ended lists
\* and removes nothing, and leaves the store as it found it
C29_SweepIdempotent ==
    [][\A r \in Slots : \A r2 \in Slots \ {r} :
          (/\ SweepCompletes(r)
           /\ req[r2].pc = "swept"
           /\ ~req[r2].sweep.dirty
           /\ req[r2].sweep.current_time = req[r].sweep.current_time) =>
             /\ req[r].sweep.to_remove = <<>>
             /\ Snapshot(sessions', heap') = req[r].sweep.pre
             /\ sessions' = sessions]_vars

\* two cleanups ran one after the other at the same clock value: the first
\* removed an expired session, the second found a session left and removed
\* nothing
C29_Witness ==
    \E r, r2 \in Slots :
        /\ req[r].pc = "swept" /\ req[r2].pc = "swept"
        /\ ~req[r].sweep.dirty /\ ~req[r2].sweep.dirty
        /\ req[r].sweep.current_time = req[r2].sweep.current_time
        /\ Len(req[r2].sweep.to_remove) = 1
        /\ req[r].sweep.to_remove = <<>>
        /\ req[r].sweep.di_used = 1
        /\ DictLen(sessions) = 1

\* C30: the Anthropic variant is sent only user and assistant turns, in the
\* order of the windowed turns, with the system prompt in the system field;
\* the OpenAI variant is sent one leading system message followed by the
\* windowed turns unchanged
C30_PayloadPerVariant ==
    \A r \in Slots :
        req[r].pc = "awaiting" =>
            LET stored == heap[req[r].session].messages
                n == Len(stored)
                first == IF n > CONTEXT_TURNS THEN n - CONTEXT_TURNS + 1 ELSE 1
                window == [i \in 1..(n - first + 1) |->
                              [role |-> stored[first + i - 1].role,
                               content |-> stored[first + i - 1].content]]
                sent == req[r].payload
            IN  /\ sent.variant = Variant
                /\ Variant = "anthropic" =>
                      /\ sent.system = system_message
                      /\ \A i \in 1..Len(sent.messages) :
                            sent.messages[i].role \in {"user", "assistant"}
                      /\ sent.messages =
                            SelectSeq(window, LAMBDA t : t.role \in {"user", "assistant"})
                /\ Variant = "openai" =>
                      /\ sent.system = ""
                      /\ Len(sent.messages) = Len(window) + 1
                      /\ sent.messages[1] = [role |-> "system", content |-> system_message]
                      /\ \A i \in 1..Len(window) : sent.messages[i + 1] = window[i]

\* the Anthropic variant was sent a full window of ten turns cut from eleven
\* stored ones
C30_Witness ==
    \E r \in Slots :
        /\ req[r].pc = "awaiting"
        /\ Variant = "anthropic"
        /\ Len(heap[req[r].session].messages) = 11
        /\ Len(req[r].payload.messages) = 10
        /\ req[r].payload.messages[1].role = "assistant"
        /\ req[r].payload.system = system_message

\* the turns of seq up to position n, cut to the context length and reduced
\* to role and content
ContextUpTo(seq, n) ==
    LET first == IF n > CONTEXT_TURNS THEN n - CONTEXT_TURNS + 1 ELSE 1
    IN  [i \in 1..(n - first + 1) |->
            [role |-> seq[first + i - 1].role, content |-> seq[first + i - 1].content]]

\* C31: whatever concurrent requests do on the same session, the context a
\* request has sent to the provider ends with the user turn that request
\* stored, and is a snapshot: it is the window ending at that turn, without
\* the turns other requests stored while the call is in flight
C31_ContextIsSnapshotEndingWithOwnTurn ==
    /\ \A r \in Slots :
          req[r].pc = "awaiting" =>
             LET stored == heap[req[r].session].messages
                 own == req[r].uidx
                 ctx == req[r].ai_messages
                 sent == req[r].payload.messages
             IN  /\ own \in 1..Len(stored)
                 /\ stored[own].role = "user"
                 /\ stored[own].content = req[r].message
                 /\ ctx = ContextUpTo(stored, own)
                 /\ ctx[Len(ctx)] = [role |-> "user", content |-> req[r].message]
                 /\ sent[Len(sent)] = ctx[Len(ctx)]
                 /\ \A i \in 1..Len(ctx) : sent[Len(sent) - Len(ctx) + i] = ctx[i]

\* a call is in flight on a session to which another request has since added
\* its user turn and its reply
C31_Witness ==
    \E r \in Slots :
        /\ req[r].pc = "awaiting"
        /\ Len(heap[req[r].session].messages) >= req[r].uidx + 2
        /\ Len(req[r].ai_messages) = req[r].uidx

\* C32: for requests made one after the other on one session, the context sent
\* to the provider begins with a user turn and alternates user, assistant from
\* there, whatever the length of the history
C32_ContextBeginsWithUserTurn ==
    \A r \in Slots :
        req[r].pc = "awaiting" =>
            LET ctx == req[r].ai_messages
            IN  /\ ctx[1].role = "user"
                /\ \A i \in 1..Len(ctx) :
                      ctx[i].role = (IF i % 2 = 1 THEN "user" ELSE "assistant")

\* a stored session as the claim wants it: a history that is not empty and
\* starts with a user turn
HasUserFirst(rec) == Len(rec.messages) >= 1 /\ rec.messages[1].role = "user"

\* C33: every session in the store has at least one message and its first
\* message is a user turn, in every state that another request or a report
\* can see (the event loop is free) and at every entry a cleanup reads
C33_NoEmptySessionObserved ==
    [][/\ running = 0 => \A rec \in Stored : HasUserFirst(rec)
       /\ \A r \in Slots :
             (/\ req[r].pc = "scanning"
              /\ req'[r].pc = "scanning"
              /\ req'[r].sweep.di_pos # req[r].sweep.di_pos) =>
                HasUserFirst(heap[sessions[req'[r].sweep.di_pos].val])]_vars

\* C34: whatever the interleaving of overlapping requests on one session, its
\* stored messages never hold two consecutive turns of the same role, and each
\* assistant turn comes right after the user turn it answers
C34_RolesAlternateUnderOverlap ==
    /\ \A rec \in Stored :
          \A i \in 1..(Len(rec.messages) - 1) :
              rec.messages[i].role # rec.messages[i + 1].role
    /\ \A r \in Slots :
          req[r].pc = "responded" => req[r].aidx = req[r].uidx + 1

\* the handler of request r takes a step: admission, get_session, the user
\* turn, the provider's return
HandlerStep(r) ==
    /\ req'[r].pc # req[r].pc
    /\ \/ req[r].pc \in Terminal
       \/ req[r].pc \in {"refresh", "return", "awaiting"}

\* the session id the handler of r works on in this step
HandlerSession(r) ==
    IF req[r].pc \in Terminal THEN req'[r].session_id ELSE req[r].session_id

\* C35: a chat request on session A leaves every other session untouched: no
\* step of its handler, from admission to response, changes the messages,
\* user_info, created_at or last_activity of another session, and none
\* removes a session from the store
C35_OtherSessionsUntouched ==
    [][\A r \in Slots :
          HandlerStep(r) =>
             \A i \in 1..Len(sessions) :
                 sessions[i].key # 0 =>
                    /\ DictHas(sessions', sessions[i].key)
                    /\ DictGet(sessions', sessions[i].key) = sessions[i].val
                    /\ sessions[i].key # HandlerSession(r) =>
                          heap'[sessions[i].val] = heap[sessions[i].val]]_vars

\* a request on an existing session was answered while the store held another
\* session, last active earlier, with its two turns
C35_Witness ==
    \E r \in Slots :
        /\ req[r].pc = "responded"
        /\ ~req[r].created
        /\ DictLen(sessions) = 2
        /\ DictHas(sessions, req[r].session_id)
        /\ \E rec \in Stored :
              /\ rec # heap[req[r].session]
              /\ Len(rec.messages) = 2
              /\ FromIsoFormat(rec.last_activity) < now

====
